---- MODULE Spec2Model ----
(***************************************************************************)
(* Model of the ImmoEliza price predictor: the feature-preparation         *)
(* pipeline (src/preprocessing/cleaning_data.py), its encoding tables      *)
(* (src/config.py), the estimator wrapper (src/predict/prediction.py) and  *)
(* the Streamlit session that drives them (src/app.py).                    *)
(*                                                                         *)
(* Cell values of a dict or a DataFrame are records of one shape, so that  *)
(* numbers, strings, None and NaN compare with one another:                *)
(*   N(i)  a number      S(s)  a string      None      NaN                 *)
(* Latitude and longitude are held in hundredths of a degree (50.85 is     *)
(* N(5085)); every other number is held as itself.                         *)
(***************************************************************************)
EXTENDS Integers, Sequences, FiniteSets, TLC

VARIABLES
    csv,            \* the reference table stored at DATA_PATH (what read_csv returns)
    data,           \* StreamlitApp.data, the frame loaded by __init__
    communes,       \* StreamlitApp.communes
    session_state,  \* st.session_state: the "commune" and "zip_code" keys
    options,        \* pandas' global option future.no_silent_downcasting
    input,          \* the caller's dict handed to Preprocessor.preprocess
    req,            \* the last estimation request and what became of it
    runs,           \* results of the pipeline runs on `input`, oldest first
    view,           \* the map display_map rendered last
    callback        \* the on_change callback run last: its field, the commune it found

vars ==
    <<csv, data, communes, session_state, options, input, req, runs, view,
      callback>>

-----------------------------------------------------------------------------
(* Cell values *)

N(i) == [k |-> "num", n |-> i, s |-> ""]
S(t) == [k |-> "str", n |-> 0, s |-> t]
None == [k |-> "none", n |-> 0, s |-> ""]
NaN == [k |-> "nan", n |-> 0, s |-> ""]

-----------------------------------------------------------------------------
(* src/config.py *)

REQUIRED_COLUMNS ==
    << "living_area", "commune", "building_condition", "subtype_of_property",
       "equipped_kitchen", "terrace" >>

FEATURE_ORDER ==
    << "living_area", "com_avg_income", "building_condition",
       "subtype_of_property", "latitude", "longitude", "equipped_kitchen",
       "min_distance", "terrace" >>

BUILDING_CONDITIONS ==
    << "To Restore", "To Renovate", "To Refresh", "Good", "Just Renovated",
       "As New" >>

PROPERTY_SUBTYPES ==
    << "Kot", "Apartment", "Ground Floor", "Flat Studio", "Service Flat",
       "Farmhouse", "Mixed Use Building", "Triplex", "Duplex", "House",
       "Town House", "Bungalow", "Chalet", "Country Cottage",
       "Apartment Block", "Other Property", "Loft", "Mansion", "Penthouse",
       "Villa", "Manor House", "Castle", "Exceptional Property" >>

EQUIPPED_KITCHEN ==
    << "Not Installed", "Semi Equipped", "Installed", "Hyper Equipped" >>

KITCHEN_ENCODING ==
    "Hyper Equipped" :> N(3) @@ "Installed" :> N(2) @@
    "Semi Equipped" :> N(1) @@ "Not Installed" :> N(0)

CONDITION_ENCODING ==
    "As New" :> N(5) @@ "Just Renovated" :> N(4) @@ "Good" :> N(3) @@
    "To Refresh" :> N(2) @@ "To Renovate" :> N(1) @@ "To Restore" :> N(0)

SUBTYPE_MAPPING ==
    "Villa" :> S("luxury") @@ "Exceptional Property" :> S("luxury") @@
    "Manor House" :> S("luxury") @@ "Castle" :> S("luxury") @@
    "Penthouse" :> S("luxury") @@ "Mansion" :> S("luxury") @@
    "Loft" :> S("luxury") @@
    "Other Property" :> S("other") @@ "Apartment Block" :> S("other") @@
    "Duplex" :> S("house") @@ "Country Cottage" :> S("house") @@
    "Chalet" :> S("house") @@ "Bungalow" :> S("house") @@
    "Town House" :> S("house") @@ "House" :> S("house") @@
    "Triplex" :> S("house") @@
    "Mixed Use Building" :> S("mixed use building") @@
    "Farmhouse" :> S("mixed use building") @@
    "Kot" :> S("apartment") @@ "Flat Studio" :> S("apartment") @@
    "Service Flat" :> S("apartment") @@ "Ground Floor" :> S("apartment") @@
    "Apartment" :> S("apartment")

SUBTYPE_ENCODING ==
    "luxury" :> N(4) @@ "other" :> N(3) @@ "house" :> N(2) @@
    "mixed use building" :> N(1) @@ "apartment" :> N(0)

\* The {"Yes": 1, "No": 0} literal handed to Series.replace.
TERRACE_REPLACE == "Yes" :> N(1) @@ "No" :> N(0)

-----------------------------------------------------------------------------
(* DataFrames: [cols: the set of column names, rows: a sequence of rows,   *)
(* each a function from cols to cell values].                              *)

\* pd.DataFrame([data]): one row, one column per key of the dict.
DataFrame(d) == [cols |-> DOMAIN d, rows |-> << d >>]

\* pd.merge(left, right, on="commune", how="left") with the default suffixes:
\* a non-key column the two frames share is renamed c_x (left) and c_y (right);
\* each left row yields one row per right row with an equal key, in the right
\* frame's order, or a single row with the right columns NaN when none is equal.
merge(left, right) ==
    LET shared == (left.cols \cap right.cols) \ {"commune"}
        lname(c) == IF c \in shared THEN c \o "_x" ELSE c
        rname(c) == IF c \in shared THEN c \o "_y" ELSE c
        lcols == {lname(c) : c \in left.cols}
        rcols == {rname(c) : c \in right.cols \ {"commune"}}
        lsrc(c) == CHOOSE o \in left.cols : lname(o) = c
        rsrc(c) == CHOOSE o \in right.cols \ {"commune"} : rname(o) = c
        joined(l, r) ==
            [c \in lcols \cup rcols |->
                IF c \in lcols THEN l[lsrc(c)] ELSE r[rsrc(c)]]
        unmatched(l) ==
            [c \in lcols \cup rcols |-> IF c \in lcols THEN l[lsrc(c)] ELSE NaN]
        matches(l) == SelectSeq(right.rows, LAMBDA r : r["commune"] = l["commune"])
        rowsOf(l) ==
            IF matches(l) = << >> THEN << unmatched(l) >>
            ELSE [i \in 1..Len(matches(l)) |-> joined(l, matches(l)[i])]
        RECURSIVE cat(_)
        cat(i) == IF i > Len(left.rows) THEN << >>
                  ELSE rowsOf(left.rows[i]) \o cat(i + 1)
    IN [cols |-> lcols \cup rcols, rows |-> cat(1)]

\* DataFrame.drop(columns=[c])
drop(df, c) ==
    [cols |-> df.cols \ {c},
     rows |-> [i \in 1..Len(df.rows) |-> [x \in df.cols \ {c} |-> df.rows[i][x]]]]

\* Series.map(mapping): a value that is no key of the dict becomes NaN.
map_value(v, mapping) ==
    IF v.k = "str" /\ v.s \in DOMAIN mapping THEN mapping[v.s] ELSE NaN

\* Series.replace(mapping): a value that is no key of the dict is kept.
replace_value(v, mapping) ==
    IF v.k = "str" /\ v.s \in DOMAIN mapping THEN mapping[v.s] ELSE v

\* df[column] = series, the series indexed like `src` (row labels 1..Len):
\* rows of df beyond the series' index get NaN.
assign_column(df, column, series) ==
    [cols |-> df.cols \cup {column},
     rows |-> [i \in 1..Len(df.rows) |->
                 [x \in df.cols \cup {column} |->
                     IF x = column
                     THEN (IF i <= Len(series) THEN series[i] ELSE NaN)
                     ELSE df.rows[i][x]]]]

\* Preprocessor.manual_mapping: df[column] = df[column].map(mapping), in every row.
manual_mapping(df, column, mapping) ==
    [cols |-> df.cols,
     rows |-> [i \in 1..Len(df.rows) |->
                 [x \in df.cols |->
                     IF x = column THEN map_value(df.rows[i][x], mapping)
                     ELSE df.rows[i][x]]]]

\* df[FEATURE_ORDER].values: one 9-element vector per row, in FEATURE_ORDER.
values_in_order(df) ==
    [i \in 1..Len(df.rows) |->
        [j \in 1..Len(FEATURE_ORDER) |-> df.rows[i][FEATURE_ORDER[j]]]]

IsMissing(v) == v.k \in {"nan", "none"}

HasString(matrix) ==
    \E i \in 1..Len(matrix) : \E j \in 1..Len(matrix[i]) : matrix[i][j].k = "str"

HasNaN(matrix) ==
    \E i \in 1..Len(matrix) : \E j \in 1..Len(matrix[i]) : IsMissing(matrix[i][j])

\* The fitted scaler unpickled from SCALER_PATH, an artifact outside the
\* repository: a fixed per-feature transform, kept uninterpreted (the scaled
\* cell names its feature and the raw number it came from).  As the
\* scikit-learn scalers do, it converts the array to floats (None becomes NaN),
\* passes NaN through, and is not reached when a cell is a non-numeric string.
scaler_transform(matrix) ==
    [i \in 1..Len(matrix) |->
        [j \in 1..Len(matrix[i]) |->
            IF IsMissing(matrix[i][j]) THEN NaN
            ELSE [k |-> "scaled", n |-> matrix[i][j].n, s |-> FEATURE_ORDER[j]]]]

\* Preprocessor.scale_data: reorder to FEATURE_ORDER (KeyError when a feature
\* is no column of df), then scaler.transform(df.values) (ValueError when a
\* cell cannot be converted to a float).
scale_data(df) ==
    IF \E j \in 1..Len(FEATURE_ORDER) : FEATURE_ORDER[j] \notin df.cols
    THEN [status |-> "KeyError", handed |-> << >>, scaled |-> << >>]
    ELSE IF HasString(values_in_order(df))
    THEN [status |-> "ValueError", handed |-> values_in_order(df), scaled |-> << >>]
    ELSE [status |-> "returned", handed |-> values_in_order(df),
          scaled |-> scaler_transform(values_in_order(df))]

\* Preprocessor.get_data: pd.read_csv(import_path), a fresh frame per call.
get_data(file) == file

\* A validation that stops at the first absent field.
first_missing_column(d) ==
    LET all == SelectSeq(REQUIRED_COLUMNS, LAMBDA col : col \notin DOMAIN d)
    IN IF all = << >> THEN all ELSE << Head(all) >>

\* The list comprehension of preprocess: the required columns that are no key
\* of the dict, in REQUIRED_COLUMNS order.
missing_columns(d) ==
    SelectSeq(REQUIRED_COLUMNS, LAMBDA col : col \notin DOMAIN d)

\* An encoding that maps the raw subtype straight to the category ranks.
encode_without_category(merged_df, df) ==
    LET terrace == [i \in 1..Len(df.rows) |->
                       replace_value(df.rows[i]["terrace"], TERRACE_REPLACE)]
        t == assign_column(merged_df, "terrace", terrace)
        c == manual_mapping(t, "building_condition", CONDITION_ENCODING)
        s2 == manual_mapping(c, "subtype_of_property", SUBTYPE_ENCODING)
    IN manual_mapping(s2, "equipped_kitchen", KITCHEN_ENCODING)

\* The encoding steps of preprocess on the merged frame (commune dropped):
\* terrace from the input frame's Series, then the four manual mappings.
encode(merged_df, df) ==
    LET terrace == [i \in 1..Len(df.rows) |->
                       replace_value(df.rows[i]["terrace"], TERRACE_REPLACE)]
        t == assign_column(merged_df, "terrace", terrace)
        c == manual_mapping(t, "building_condition", CONDITION_ENCODING)
        s1 == manual_mapping(c, "subtype_of_property", SUBTYPE_MAPPING)
        s2 == manual_mapping(s1, "subtype_of_property", SUBTYPE_ENCODING)
    IN manual_mapping(s2, "equipped_kitchen", KITCHEN_ENCODING)

\* Preprocessor.preprocess(data, import_path), `file` being the table stored at
\* import_path.  status: "returned", or the exception raised.  missing: the
\* fields the ValueError names.  stages: the steps entered, in order.  handed:
\* the array given to scaler.transform.  scaled: the value returned.
preprocess(d, file) ==
    LET none == [status |-> "ValueError", missing |-> missing_columns(d),
                 stages |-> << "validate" >>, handed |-> << >>, scaled |-> << >>]
        df == DataFrame(d)
        merged_df == drop(merge(df, get_data(file)), "commune")
        mapped == {"building_condition", "subtype_of_property", "equipped_kitchen"}
        encoded_df == encode(merged_df, df)
        sc == scale_data(encoded_df)
    IN IF missing_columns(d) # << >> THEN none
       ELSE IF ~(mapped \subseteq merged_df.cols)
       THEN [status |-> "KeyError", missing |-> << >>,
             stages |-> << "validate", "lookup", "encode" >>,
             handed |-> << >>, scaled |-> << >>]
       ELSE [status |-> sc.status, missing |-> << >>,
             stages |-> << "validate", "lookup", "encode", "scale" >>,
             handed |-> sc.handed, scaled |-> sc.scaled]

\* Predictor.predict: self.model.predict(scaled_data) wrapped in a Series, one
\* price per row.  The model unpickled from MODEL_PATH is an artifact outside
\* the repository: a fixed function of the row, kept uninterpreted; as the
\* scikit-learn k-neighbours regressor does, it raises ValueError on NaN.
predict(scaled_data) ==
    IF HasNaN(scaled_data)
    THEN [status |-> "ValueError", prices |-> << >>]
    ELSE [status |-> "returned",
          prices |-> [i \in 1..Len(scaled_data) |-> [price_of |-> scaled_data[i]]]]

\* What the try block of predict_price does once preprocess is entered:
\* preprocess, then, only if it returned, Predictor.predict on its result.
\* calls: the number of times the estimator was invoked.
NoPrep ==
    [status |-> "none", missing |-> << >>, stages |-> << >>,
     handed |-> << >>, scaled |-> << >>]

NoEst == [status |-> "none", prices |-> << >>]

pipeline(d, file) ==
    LET p == preprocess(d, file)
    IN [prep |-> p,
        est |-> IF p.status = "returned" THEN predict(p.scaled) ELSE NoEst,
        calls |-> IF p.status = "returned" THEN 1 ELSE 0]

\* pd.set_option("future.no_silent_downcasting", True) is reached by every
\* call of preprocess that passes the validation of the required fields.
options_after(d, opts) == IF missing_columns(d) = << >> THEN TRUE ELSE opts

-----------------------------------------------------------------------------
(* The reference table at DATA_PATH.  Columns: those preprocess joins     *)
(* (latitude, longitude, min_distance, com_avg_income), zip_code, which    *)
(* sync_fields reads, and, when `listing`, the price and living_area       *)
(* columns display_map reads.  Brussels has `dup` rows, Gent one.          *)

MaxDup == 2

ReferenceRow(commune, zip, lat, lon, dist, income, price, area, listing) ==
    LET base == [c \in {"commune", "zip_code", "latitude", "longitude",
                        "min_distance", "com_avg_income"} |->
                    CASE c = "commune" -> S(commune)
                      [] c = "zip_code" -> N(zip)
                      [] c = "latitude" -> N(lat)
                      [] c = "longitude" -> N(lon)
                      [] c = "min_distance" -> N(dist)
                      [] OTHER -> N(income)]
    IN IF listing
       THEN base @@ [c \in {"price", "living_area"} |->
                        IF c = "price" THEN N(price) ELSE N(area)]
       ELSE base

Table(dup, listing) ==
    LET brussels(i) ==
            ReferenceRow("Brussels", 1000 + 20 * (i - 1), 5085 + i - 1, 435,
                         i - 1, 25000 - 1000 * (i - 1), 300000, 120, listing)
        gent == ReferenceRow("Gent", 9000, 5105, 372, 3, 21000, 200000, 100,
                             listing)
        rows == [i \in 1..dup + 1 |-> IF i <= dup THEN brussels(i) ELSE gent]
    IN [cols |-> DOMAIN gent, rows |-> rows]

Tables == {Table(d, l) : d \in 1..MaxDup, l \in BOOLEAN}

\* A table in which two communes share a zip code, Gent listed first.
SharedZipTable(listing) ==
    LET zwijnaarde == ReferenceRow("Zwijnaarde", 9000, 5100, 370, 6, 23000,
                                   250000, 110, listing)
    IN [cols |-> Table(1, listing).cols,
        rows |-> Append(Table(1, listing).rows, zwijnaarde)]

SharedZipTables == {SharedZipTable(l) : l \in BOOLEAN}

-----------------------------------------------------------------------------
(* Request dicts *)

Absent == [k |-> "absent", n |-> 0, s |-> ""]

Keys ==
    {"living_area", "commune", "building_condition", "subtype_of_property",
     "equipped_kitchen", "terrace", "zip_code"}

\* The dict holding the keys whose choice is not Absent.
Dict(full) == [key \in {x \in Keys : full[x] # Absent} |-> full[key]]

Strs(seq) == {S(seq[i]) : i \in 1..Len(seq)}

\* Every combination of the fixed vocabularies, for a commune of the table.
VocabInputs ==
    {Dict([living_area |-> N(120), commune |-> S("Brussels"),
           building_condition |-> b, subtype_of_property |-> p,
           equipped_kitchen |-> q, terrace |-> x, zip_code |-> Absent]) :
        b \in Strs(BUILDING_CONDITIONS), p \in Strs(PROPERTY_SUBTYPES),
        q \in Strs(EQUIPPED_KITCHEN), x \in {S("Yes"), S("No")}}

\* Absent keys, placeholders, an unknown commune and values outside the
\* vocabularies, around one valid choice per field.
FaultInputs ==
    {Dict([living_area |-> a, commune |-> c, building_condition |-> b,
           subtype_of_property |-> p, equipped_kitchen |-> q, terrace |-> x,
           zip_code |-> Absent]) :
        a \in {Absent, N(0), N(120)},
        c \in {Absent, S("Gent"), S("Nowhereville")},
        b \in {Absent, S("Good"), S("Excellent")},
        p \in {Absent, S("--Select--"), S("House")},
        q \in {Absent, S("Installed"), S("Luxury")},
        x \in {Absent, None, S("Yes"), S("Maybe")}}

\* Dicts shaped like the input_data of input_features: a zip_code key besides
\* the six fields.
KeyedInputs ==
    {Dict([living_area |-> N(120), commune |-> c, building_condition |-> S("Good"),
           subtype_of_property |-> S("House"), equipped_kitchen |-> S("Installed"),
           terrace |-> S("Yes"), zip_code |-> S("1000")]) :
        c \in {S("Brussels"), S("Gent"), S("Nowhereville")}}

Inputs == VocabInputs \cup FaultInputs \cup KeyedInputs

\* A request made between two runs on `input`.
OtherInputs ==
    {Dict([living_area |-> N(85), commune |-> S("Gent"),
           building_condition |-> S("As New"), subtype_of_property |-> S("Villa"),
           equipped_kitchen |-> S("Hyper Equipped"), terrace |-> S("No"),
           zip_code |-> Absent])}

-----------------------------------------------------------------------------
(* Text typed into the zip code field: a sequence of characters. *)

Digit ==
    "0" :> 0 @@ "1" :> 1 @@ "2" :> 2 @@ "3" :> 3 @@ "4" :> 4 @@
    "5" :> 5 @@ "6" :> 6 @@ "7" :> 7 @@ "8" :> 8 @@ "9" :> 9

DigitChars == << "0", "1", "2", "3", "4", "5", "6", "7", "8", "9" >>

RECURSIVE strip(_)
strip(text) ==
    IF text = << >> THEN text
    ELSE IF Head(text) = " " THEN strip(Tail(text))
    ELSE IF text[Len(text)] = " " THEN strip(SubSeq(text, 1, Len(text) - 1))
    ELSE text

RECURSIVE digits_value(_)
digits_value(text) ==
    IF text = << >> THEN 0
    ELSE 10 * digits_value(SubSeq(text, 1, Len(text) - 1)) + Digit[text[Len(text)]]

\* int(text): surrounding blanks are ignored, one sign is allowed, and what is
\* left must be one or more decimal digits; anything else raises ValueError.
int(text) ==
    LET body == strip(text)
        signed == body # << >> /\ Head(body) \in {"+", "-"}
        ds == IF signed THEN Tail(body) ELSE body
        ok == ds # << >> /\ \A i \in 1..Len(ds) : ds[i] \in DOMAIN Digit
    IN [ok |-> ok,
        val |-> IF ~ok THEN 0
                ELSE IF signed /\ Head(body) = "-" THEN 0 - digits_value(ds)
                ELSE digits_value(ds)]

\* str(n) of an integer.
RECURSIVE str_nat(_)
str_nat(n) ==
    IF n < 10 THEN << DigitChars[n + 1] >>
    ELSE str_nat(n \div 10) \o << DigitChars[(n % 10) + 1] >>

str(n) == IF n < 0 THEN << "-" >> \o str_nat(0 - n) ELSE str_nat(n)

\* The Python string a text is, as a cell value.
RECURSIVE join(_)
join(text) == IF text = << >> THEN "" ELSE Head(text) \o join(Tail(text))

-----------------------------------------------------------------------------
(* src/app.py *)

\* self.data[self.data[column] == value]: the rows whose cell equals value.
rows_where(df, column, value) ==
    SelectSeq(df.rows, LAMBDA r : r[column] = value)

\* Preprocessor.get_unique_values' body, df[column].unique().tolist(): the
\* column's values in order of first appearance.
RECURSIVE unique(_)
unique(seq) ==
    IF seq = << >> THEN << >>
    ELSE LET init == unique(SubSeq(seq, 1, Len(seq) - 1))
             last == seq[Len(seq)]
         IN IF \E i \in 1..Len(init) : init[i] = last THEN init
            ELSE Append(init, last)

get_unique_values(column, file) ==
    unique([i \in 1..Len(get_data(file).rows) |-> get_data(file).rows[i][column].s])

\* sorted(...) of commune names; the names of the tables above, in string order.
Alphabetical == "Brussels" :> 1 @@ "Gent" :> 2 @@ "Zwijnaarde" :> 3

RECURSIVE sorted(_)
sorted(seq) ==
    IF seq = << >> THEN << >>
    ELSE LET m == CHOOSE i \in 1..Len(seq) :
                     \A j \in 1..Len(seq) : Alphabetical[seq[i]] <= Alphabetical[seq[j]]
         IN << seq[m] >> \o
            sorted([j \in 1..Len(seq) - 1 |-> IF j < m THEN seq[j] ELSE seq[j + 1]])

\* A sync_fields that takes the last row with the zip code, and clears the
\* commune when no row has it.
sync_fields_last_or_clear(field, ss, df) ==
    IF field = "zip_code"
    THEN LET zip_code == int(ss.zip_code)
             matched_commune == rows_where(df, "zip_code", N(zip_code.val))
         IN IF zip_code.ok /\ matched_commune # << >>
            THEN [ss EXCEPT !.commune =
                     matched_commune[Len(matched_commune)]["commune"].s]
            ELSE [ss EXCEPT !.commune = ""]
    ELSE LET matched_zip == rows_where(df, "commune", S(ss.commune))
         IN IF matched_zip # << >>
            THEN [ss EXCEPT !.zip_code = str(matched_zip[1]["zip_code"].n)]
            ELSE ss

\* StreamlitApp.sync_fields(field): the session state it leaves.
sync_fields(field, ss, df) ==
    IF field = "zip_code"
    THEN LET zip_code == int(ss.zip_code)
             matched_commune == rows_where(df, "zip_code", N(zip_code.val))
         IN IF zip_code.ok /\ matched_commune # << >>
            THEN [ss EXCEPT !.commune = matched_commune[1]["commune"].s]
            ELSE ss
    ELSE LET matched_zip == rows_where(df, "commune", S(ss.commune))
         IN IF matched_zip # << >>
            THEN [ss EXCEPT !.zip_code = str(matched_zip[1]["zip_code"].n)]
            ELSE ss

\* The options of the commune selectbox.
commune_options(cs) == << "--Select--" >> \o cs

\* value in [None, "--Select--", 0], for a value of input_data.
is_placeholder(v) ==
    v.k = "none" \/ (v.k = "str" /\ v.s = "--Select--") \/ (v.k = "num" /\ v.n = 0)

\* Python's binding of a call made with keyword arguments only: every keyword
\* must name a parameter and every parameter (none has a default) must be given.
binds(keywords, parameters) == keywords = parameters

\* StreamlitApp.predict_price: the call of preprocess names the keywords
\* exported_data and input_data, the parameters are data and import_path, so
\* the call raises TypeError, which `except ValueError` does not catch.
predict_price(input_data, df) ==
    IF ~binds({"exported_data", "input_data"}, {"data", "import_path"})
    THEN [prep |-> NoPrep, est |-> NoEst, calls |-> 0, shown |-> "TypeError"]
    ELSE LET r == pipeline(input_data, df)
         IN [prep |-> r.prep, est |-> r.est, calls |-> r.calls,
             shown |-> IF r.est.status = "returned" THEN "success"
                       ELSE IF "ValueError" \in {r.prep.status, r.est.status}
                       THEN "error" ELSE r.prep.status]

\* The branch of input_features taken when "Predict Price" is pressed.
press(input_data, df) ==
    IF \E key \in DOMAIN input_data : is_placeholder(input_data[key])
    THEN [prep |-> NoPrep, est |-> NoEst, calls |-> 0, shown |-> "fill_in"]
    ELSE predict_price(input_data, df)

\* be_lat, be_lon (50.8503, 4.3517), to the hundredth of a degree.
Belgium == [lat |-> N(5085), lon |-> N(435)]

\* StreamlitApp.display_map, the map: its centre, whether a marker is set, and
\* whether the heatmap layer was added ("KeyError": computing it raised, and
\* nothing is rendered).
map_of(selected_commune, add_heatmap, df) ==
    LET commune_coordinates == rows_where(df, "commune", S(selected_commune))
        found == selected_commune # "--Select--" /\ commune_coordinates # << >>
    IN [center |-> IF found
                   THEN [lat |-> commune_coordinates[1]["latitude"],
                         lon |-> commune_coordinates[1]["longitude"]]
                   ELSE Belgium,
        marker |-> found,
        heatmap |-> IF ~add_heatmap THEN "off"
                    ELSE IF {"price", "living_area"} \subseteq df.cols THEN "on"
                    ELSE "KeyError"]

\* StreamlitApp.display_map, self.data as it leaves it: with the heatmap on,
\* self.data["price_per_sqm"] = self.data["price"] / self.data["living_area"].
data_after_map(add_heatmap, df) ==
    IF add_heatmap /\ {"price", "living_area"} \subseteq df.cols
    THEN assign_column(df, "price_per_sqm",
             [i \in 1..Len(df.rows) |->
                 N(df.rows[i]["price"].n \div df.rows[i]["living_area"].n)])
    ELSE df

-----------------------------------------------------------------------------
(* State machine *)

NoReq ==
    [path |-> "none", input |-> << >>, prep |-> NoPrep, est |-> NoEst,
     calls |-> 0, shown |-> "none"]

NoView == [center |-> Belgium, marker |-> FALSE, heatmap |-> "none"]

NoCallback == [field |-> "none", commune |-> "--Select--"]

\* Widget values of the samples below.
LivingAreas == {None, N(0), N(120)}
Conditions == {S("Good")}
Subtypes == {S("--Select--"), S("House")}
Kitchens == {S("--Select--"), S("Installed")}
Terraces == {S("--Select--"), S("Yes")}
ZipTexts ==
    { << "9", "0", "0", "0" >>, << " ", "1", "0", "2", "0" >>,
      << "2", "0", "0", "0" >>, << "a", "b" >> }

MaxRuns == 2

\* The object StreamlitApp.__init__ is written to build (self.data read from
\* DATA_PATH, self.communes the sorted unique commune names) and the two
\* session keys input_features sets first.  __init__ passes get_unique_values
\* the keywords data and column, while the method declares column and
\* import_path: binds({"data", "column"}, {"column", "import_path"}) is FALSE as
\* well, and main() as written stops there with a TypeError.  The operations
\* below are those of the object, taken from a state in which it exists.
InitApp ==
    /\ data = csv
    /\ communes = sorted(get_unique_values("commune", csv))
    /\ session_state = [commune |-> "--Select--", zip_code |-> << >>]
    /\ options = FALSE
    /\ req = NoReq
    /\ runs = << >>
    /\ view = NoView
    /\ callback = NoCallback

Init ==
    /\ csv \in Tables \cup SharedZipTables
    /\ InitApp
    /\ input = << >>

InitPipeline ==
    /\ csv \in Tables
    /\ InitApp
    /\ input \in Inputs

\* The zip code field is edited: on_change runs sync_fields("zip_code").  The
\* edit reruns the script, so what the last press rendered is gone.
EnterZip ==
    \E text \in ZipTexts :
        /\ session_state' =
               sync_fields("zip_code", [session_state EXCEPT !.zip_code = text], data)
        /\ req' = NoReq
        /\ callback' = [field |-> "zip_code", commune |-> session_state.commune]
        /\ UNCHANGED <<csv, data, communes, options, input, runs, view>>

\* A commune is chosen in the selectbox: on_change runs sync_fields("commune").
SelectCommune ==
    \E i \in 1..Len(commune_options(communes)) :
        /\ session_state' =
               sync_fields("commune",
                   [session_state EXCEPT !.commune = commune_options(communes)[i]],
                   data)
        /\ req' = NoReq
        /\ callback' = [field |-> "commune", commune |-> session_state.commune]
        /\ UNCHANGED <<csv, data, communes, options, input, runs, view>>

\* "Predict Price" is pressed with the widgets' values.
PressPredict ==
    \E a \in LivingAreas, b \in Conditions, p \in Subtypes, q \in Kitchens,
       x \in Terraces :
        LET input_data ==
                [living_area |-> a, building_condition |-> b,
                 subtype_of_property |-> p, equipped_kitchen |-> q,
                 terrace |-> x, commune |-> S(session_state.commune),
                 zip_code |-> S(join(session_state.zip_code))]
            r == press(input_data, data)
        IN /\ req' = [path |-> "ui", input |-> input_data, prep |-> r.prep,
                      est |-> r.est, calls |-> r.calls, shown |-> r.shown]
           /\ options' = IF r.prep.status = "none" THEN options
                         ELSE options_after(input_data, options)
           /\ UNCHANGED <<csv, data, communes, session_state, input, runs, view,
                          callback>>

\* main() shows the map of the session's commune, the heatmap toggle on or off.
DisplayMap ==
    \E add_heatmap \in BOOLEAN :
        /\ view' = map_of(session_state.commune, add_heatmap, data)
        /\ data' = data_after_map(add_heatmap, data)
        /\ UNCHANGED <<csv, communes, session_state, options, input, req, runs,
                       callback>>

\* A pipeline that writes the encoded building condition back into the
\* caller's dict.
Pipeline_in_place ==
    \E d \in {input} \cup OtherInputs :
        LET r == pipeline(d, csv)
        IN /\ d = input => Len(runs) < MaxRuns
           /\ req' = [path |-> "direct", input |-> d, prep |-> r.prep,
                      est |-> r.est, calls |-> r.calls, shown |-> "none"]
           /\ runs' = IF d = input
                      THEN Append(runs, [r |-> r, prev |-> req.input, opts |-> options])
                      ELSE runs
           /\ options' = options_after(d, options)
           /\ input' = IF d = input /\ "building_condition" \in DOMAIN input
                       THEN [input EXCEPT !["building_condition"] =
                                map_value(@, CONDITION_ENCODING)]
                       ELSE input
           /\ UNCHANGED <<csv, data, communes, session_state, view, callback>>

\* Preprocessor.preprocess(d, DATA_PATH) followed by Predictor.predict, called
\* with the parameters the two methods declare, on `input` or on another
\* request.  A run on `input` is logged with the request made just before it
\* and the pandas option it found.
Pipeline ==
    \E d \in {input} \cup OtherInputs :
        LET r == pipeline(d, csv)
        IN /\ d = input => Len(runs) < MaxRuns
           /\ req' = [path |-> "direct", input |-> d, prep |-> r.prep,
                      est |-> r.est, calls |-> r.calls, shown |-> "none"]
           /\ runs' = IF d = input
                      THEN Append(runs, [r |-> r, prev |-> req.input, opts |-> options])
                      ELSE runs
           /\ options' = options_after(d, options)
           /\ UNCHANGED <<csv, data, communes, session_state, input, view, callback>>

Next == EnterZip \/ SelectCommune \/ PressPredict \/ DisplayMap

Spec == Init /\ [][Next]_vars

NextPipeline == Pipeline

SpecPipeline == InitPipeline /\ [][NextPipeline]_vars

-----------------------------------------------------------------------------
(* Vocabulary of the claims *)

Range(f) == {f[x] : x \in DOMAIN f}

Required == Range(REQUIRED_COLUMNS)

Complete(d) == Required \subseteq DOMAIN d

IndexOf(seq, x) == CHOOSE i \in 1..Len(seq) : seq[i] = x

ConditionRank(v) == N(IndexOf(BUILDING_CONDITIONS, v.s) - 1)

KitchenRank(v) == N(IndexOf(EQUIPPED_KITCHEN, v.s) - 1)

SubtypeRank(v) == SUBTYPE_ENCODING[SUBTYPE_MAPPING[v.s].s]

TerraceFlag(v) == IF v = S("Yes") THEN N(1) ELSE N(0)

\* The six fields are there and each is a value of its vocabulary.
InVocabulary(d) ==
    /\ Complete(d)
    /\ d["living_area"].k = "num" /\ d["living_area"].n > 0
    /\ d["commune"].k = "str"
    /\ d["building_condition"] \in Strs(BUILDING_CONDITIONS)
    /\ d["subtype_of_property"] \in Strs(PROPERTY_SUBTYPES)
    /\ d["equipped_kitchen"] \in Strs(EQUIPPED_KITCHEN)
    /\ d["terrace"] \in {S("Yes"), S("No")}

\* The rows of the reference table for the commune of d.
ReferenceRows(d) == rows_where(csv, "commune", d["commune"])

\* The feature vector of d built on the reference row r.
FeatureVector(d, r) ==
    << d["living_area"], r["com_avg_income"],
       ConditionRank(d["building_condition"]),
       SubtypeRank(d["subtype_of_property"]), r["latitude"], r["longitude"],
       KitchenRank(d["equipped_kitchen"]), r["min_distance"],
       TerraceFlag(d["terrace"]) >>

Direct == req.path = "direct"

-----------------------------------------------------------------------------
(* Claims *)

\* C1: for every request whose six fields are in the vocabularies and whose
\* commune has a row in the reference table, preprocess hands the scaler
\* exactly one vector, the nine features in FEATURE_ORDER built on a row of
\* that commune, every other column dropped.
C1_OneOrderedVector ==
    (Direct /\ InVocabulary(req.input) /\ ReferenceRows(req.input) # << >>)
        => /\ req.prep.status = "returned"
           /\ Len(req.prep.handed) = 1
           /\ \E i \in 1..Len(ReferenceRows(req.input)) :
                  req.prep.handed[1] =
                      FeatureVector(req.input, ReferenceRows(req.input)[i])

\* C2: when any of the six required fields is absent, preprocess raises one
\* ValueError that names every absent field, and neither joins, encodes nor
\* scales.
C2_AllMissingFieldsNamed ==
    (Direct /\ ~Complete(req.input))
        => /\ req.prep.status = "ValueError"
           /\ Range(req.prep.missing) = Required \ DOMAIN req.input
           /\ Len(req.prep.missing) = Cardinality(Required \ DOMAIN req.input)
           /\ req.prep.stages = << "validate" >>
           /\ req.prep.handed = << >>
           /\ req.prep.scaled = << >>
           /\ req.calls = 0

C2_Witness ==
    /\ Direct
    /\ Required \ DOMAIN req.input = {"living_area", "commune"}
    /\ req.prep.status = "ValueError"
    /\ req.prep.missing = << "living_area", "commune" >>

\* C3: when the commune matches no row of the reference table, preparation
\* fails with an UnknownCommuneError and hands no vector to the scaler.
C3_UnknownCommuneRejected ==
    (Direct /\ Complete(req.input) /\ ReferenceRows(req.input) = << >>)
        => /\ req.prep.status = "UnknownCommuneError"
           /\ req.prep.handed = << >>

\* One of the six fields is "--Select--", None or 0.
HasPlaceholder(d) == \E col \in Required \cap DOMAIN d : is_placeholder(d[col])

\* C4: a request in which one of the six fields is a placeholder ("--Select--",
\* None, 0) is a validation failure, and is neither encoded, scaled nor
\* estimated.
C4_PlaceholdersRejected ==
    (req.path # "none" /\ HasPlaceholder(req.input))
        => /\ req.shown = "fill_in" \/ req.prep.status = "ValueError"
           /\ "encode" \notin Range(req.prep.stages)
           /\ req.prep.handed = << >>
           /\ req.calls = 0

\* The six fields are there and one of the four categorical ones is no value
\* of its vocabulary.
OutOfVocabulary(d) ==
    /\ Complete(d)
    /\ \/ d["building_condition"] \notin Strs(BUILDING_CONDITIONS)
       \/ d["subtype_of_property"] \notin Strs(PROPERTY_SUBTYPES)
       \/ d["equipped_kitchen"] \notin Strs(EQUIPPED_KITCHEN)
       \/ d["terrace"] \notin {S("Yes"), S("No")}

\* C5: when building_condition, equipped_kitchen, subtype_of_property or
\* terrace is outside its vocabulary, encoding raises an EncodingError and
\* nothing is handed on.
C5_OutOfVocabularyRejected ==
    (Direct /\ OutOfVocabulary(req.input))
        => /\ req.prep.status = "EncodingError"
           /\ req.prep.handed = << >>
           /\ req.calls = 0

\* C6: on the vocabularies the encoding is total: the condition's rank is its
\* position 0..5 in BUILDING_CONDITIONS, the kitchen's its position 0..3 in
\* EQUIPPED_KITCHEN, terrace is 1 for Yes and 0 for No, and each of the 23
\* subtypes gets the rank 0..4 of its category (subtype -> category -> rank,
\* apartment 0, luxury 4); none is undefined.  The terrace flag is read in the
\* row the input frame's index reaches, the first.
C6_EncodingTotalOnVocabularies ==
    /\ Cardinality(Range(PROPERTY_SUBTYPES)) = 23
    /\ (Direct /\ InVocabulary(req.input) /\ req.prep.handed # << >>)
        => /\ \A i \in 1..Len(req.prep.handed) :
                LET v == req.prep.handed[i]
                    cat == SUBTYPE_MAPPING[req.input["subtype_of_property"].s]
                IN /\ v[3] = ConditionRank(req.input["building_condition"])
                   /\ v[3].n \in 0..5
                   /\ v[4].k = "num" /\ v[4].n \in 0..4
                   /\ v[4] = SubtypeRank(req.input["subtype_of_property"])
                   /\ cat = S("apartment") => v[4] = N(0)
                   /\ cat = S("luxury") => v[4] = N(4)
                   /\ v[7] = KitchenRank(req.input["equipped_kitchen"])
                   /\ v[7].n \in 0..3
           /\ req.prep.handed[1][9] = TerraceFlag(req.input["terrace"])

C6_Witness ==
    /\ Direct
    /\ InVocabulary(req.input)
    /\ req.input["building_condition"] = S("As New")
    /\ req.input["subtype_of_property"] = S("Castle")
    /\ req.input["equipped_kitchen"] = S("Hyper Equipped")
    /\ req.input["terrace"] = S("No")
    /\ req.prep.handed # << >>
    /\ req.prep.handed[1][3] = N(5)
    /\ req.prep.handed[1][4] = N(4)
    /\ req.prep.handed[1][7] = N(3)
    /\ req.prep.handed[1][9] = N(0)

\* C7: when several rows of the reference table share the commune, the first
\* of them is used: one vector, built on that row, and a price for it.
C7_FirstRowUsed ==
    (Direct /\ InVocabulary(req.input) /\ Len(ReferenceRows(req.input)) >= 2)
        => /\ req.prep.status = "returned"
           /\ Len(req.prep.handed) = 1
           /\ req.prep.handed[1] = FeatureVector(req.input, ReferenceRows(req.input)[1])
           /\ req.est.status = "returned"

C9_DatasetImmutable == data = csv

Rendered == {"success", "error", "fill_in"}

\* C11: every press of "Predict Price" ends in a predicted price or in an
\* error message shown to the user; no failure raised while the request is
\* handled (the interface mismatch between predict_price and preprocess
\* included) leaves the handler without being rendered.
C11_EveryPressRendered == req.path = "ui" => req.shown \in Rendered

\* The commune names of the reference dataset.
ReferenceCommunes == {data.rows[i]["commune"].s : i \in 1..Len(data.rows)}

\* The rows of the dataset whose zip code is the number the text stands for;
\* none when the text is not a number.
RowsWithZip(text) ==
    {i \in 1..Len(data.rows) :
        int(text).ok /\ data.rows[i]["zip_code"] = N(int(text).val)}

FirstWithZip(text) ==
    data.rows[CHOOSE i \in RowsWithZip(text) : \A j \in RowsWithZip(text) : i <= j]

\* C12: after any sequence of zip-code edits and commune selections the
\* session's commune is "--Select--" or a commune of the reference dataset;
\* a zip-code edit leaves the commune of the first row with that zip code, or
\* the commune it found when the text is no number or no row has it; and the
\* commune of a request that passes the placeholder test has a reference row.
C12_SessionCommuneInReference ==
    /\ session_state.commune \in {"--Select--"} \cup ReferenceCommunes
    /\ callback.field = "zip_code"
        => session_state.commune =
               IF RowsWithZip(session_state.zip_code) # {}
               THEN FirstWithZip(session_state.zip_code)["commune"].s
               ELSE callback.commune
    /\ (req.path = "ui" /\ req.shown # "fill_in")
        => req.input["commune"].s \in ReferenceCommunes

C12_Witness ==
    /\ callback.field = "zip_code"
    /\ callback.commune = "Zwijnaarde"
    /\ Cardinality(RowsWithZip(session_state.zip_code)) = 2
    /\ session_state.commune = "Gent"

====
